---- MODULE Spec2Model ----
(***************************************************************************)
(* GitApp (src/app.py): a Streamlit page that loads comandos.csv, filters  *)
(* it by importance band and search text, lets the user pick one command   *)
(* and shows its details.  Streamlit re-executes the whole script (main)   *)
(* on every user interaction, so one action of this model is one complete  *)
(* execution of main() with the widget values the interaction left.        *)
(*                                                                         *)
(* Text is a sequence of one-character strings.  An optional value (a      *)
(* Python None or a value) is a sequence of length 0 or 1.                 *)
(***************************************************************************)
EXTENDS Integers, Sequences, FiniteSets

VARIABLES
    csv,                \* comandos.csv: [status, rows]; static, read-only
    sort_result,        \* what sort_values returns for csv.rows in this build
    importance_select,  \* sidebar selectbox: index of the chosen range label
    search_input,       \* sidebar text_input: the raw text typed
    command_selector,   \* st.selectbox key="command_selector": None or index
    loaded_df,          \* self.df when load_data returned (None: it did not)
    df,                 \* self.df when the execution ended (None: never set)
    filters,            \* the dict render_sidebar_filters returned
    filtered_df,        \* what filter_commands returned
    statistics,         \* the numbers render_statistics displayed
    selected_command,   \* the dict handed to render_command_details
    rendered,           \* the elements sent to the page, in order
    outcome             \* how the last execution ended ("idle": none yet)

vars == << csv, sort_result, importance_select, search_input,
           command_selector, loaded_df, df, filters, filtered_df, statistics,
           selected_command, rendered, outcome >>

None == << >>
Some(x) == << x >>

\* The most rows a generated comandos.csv holds.
MaxRows == 3

(***************************************************************************)
(* Input data                                                              *)
(***************************************************************************)
\* The (comando, descrição) texts of the generated rows.
CommandTexts ==
    { << <<"A", "b">>, <<"c">> >>, << <<"c">>, <<"a", ".">> >> }
Ranks == { 10, 30, 157, 158 }
Usages == { <<"a", ",", " ", "b">> }

CommandEntry ==
    { [ comando |-> t[1], descricao |-> t[2],
        ordem_importancia |-> r, como_pode_ser_usado |-> u ] :
        t \in CommandTexts, r \in Ranks, u \in Usages }

RowSeqs == UNION { [1..n -> CommandEntry] : n \in 0..MaxRows }

FileStatus == { "ok", "missing", "unparseable", "no_columns" }

\* The raw texts a user types into the search box.
SearchInputs ==
    { << >>, <<"A">>, <<".">>, <<"(">>, <<" ", "b">>, <<"a", ".">> }

(***************************************************************************)
(* str.lower, str.strip                                                    *)
(***************************************************************************)
lower_char(c) ==
    CASE c = "A" -> "a"
      [] c = "B" -> "b"
      [] c = "C" -> "c"
      [] OTHER -> c

lower(s) == [ i \in 1..Len(s) |-> lower_char(s[i]) ]

is_space(c) == c = " "

RECURSIVE lstrip(_)
lstrip(s) ==
    IF s # << >> /\ is_space(Head(s)) THEN lstrip(Tail(s)) ELSE s

RECURSIVE rstrip(_)
rstrip(s) ==
    IF s # << >> /\ is_space(s[Len(s)])
    THEN rstrip(SubSeq(s, 1, Len(s) - 1))
    ELSE s

strip(s) == rstrip(lstrip(s))

(***************************************************************************)
(* Series.str.contains(pat, na=False): regex=True is the default, so pat   *)
(* is compiled as a regular expression and searched with re.search.  For   *)
(* the characters used here: "(" opens a group that nothing closes, which  *)
(* re.compile rejects; "." matches any character; every other character    *)
(* matches itself.                                                         *)
(***************************************************************************)
re_compiles(pat) == \A i \in 1..Len(pat) : pat[i] # "("

re_search(pat, s) ==
    \E k \in 0..(Len(s) - Len(pat)) :
        \A j \in 1..Len(pat) : pat[j] = "." \/ pat[j] = s[k + j]

str_contains(s, pat) == re_search(pat, s)

(***************************************************************************)
(* DataFrame.sort_values('ordem_importância'): kind defaults to            *)
(* 'quicksort', which pandas documents as not stable.  The result is       *)
(* ordered by rank; the order of rows of equal rank is the build's.        *)
(***************************************************************************)
NonDecreasing(s) ==
    \A i \in 1..(Len(s) - 1) :
        s[i].ordem_importancia <= s[i + 1].ordem_importancia

Orderings(n) ==
    { p \in [1..n -> 1..n] : \A i, j \in 1..n : i # j => p[i] # p[j] }

take(rows, indexer) == [ i \in 1..Len(rows) |-> rows[indexer[i]] ]

sort_values(rows) ==
    { s \in { take(rows, p) : p \in Orderings(Len(rows)) } : NonDecreasing(s) }

(***************************************************************************)
(* GitCommandsApp.load_data and validate_data.  st.stop() raises           *)
(* StopException, which is not an Exception: the except clauses let it     *)
(* through and the script execution ends there.  sorted_df is the value    *)
(* sort_values returns.  self.df is assigned the frame read_csv returns    *)
(* before validate_data runs, so a stop for missing columns leaves that    *)
(* unvalidated frame on the instance; when the file is missing or          *)
(* read_csv raises, self.df is never set.                                  *)
(***************************************************************************)
\* Variant: the sorted frame is computed and dropped, self.df keeps file order.
validate_data_unsorted(file, sorted_df) ==
    IF file.status = "no_columns"
    THEN [ stopped |-> TRUE, self_df |-> Some(file.rows),
           rendered |-> <<"error_csv_structure">> ]
    ELSE [ stopped |-> FALSE, self_df |-> Some(file.rows),
           rendered |-> << >> ]

\* Variant: the error is shown for missing columns but st.stop() is not called.
validate_data_without_stop(file, sorted_df) ==
    [ stopped |-> FALSE, self_df |-> Some(sorted_df), rendered |-> << >> ]

validate_data(file, sorted_df) ==
    IF file.status = "no_columns"
    THEN [ stopped |-> TRUE, self_df |-> Some(file.rows),
           rendered |-> <<"error_csv_structure">> ]
    ELSE [ stopped |-> FALSE, self_df |-> Some(sorted_df),
           rendered |-> << >> ]

load_data(file, sorted_df) ==
    IF file.status = "missing"
    THEN [ stopped |-> TRUE, self_df |-> None,
           rendered |-> <<"error_file_not_found">> ]
    ELSE IF file.status = "unparseable"
    THEN [ stopped |-> TRUE, self_df |-> None,
           rendered |-> <<"error_loading_data">> ]
    ELSE validate_data(file, sorted_df)

(***************************************************************************)
(* GitCommandsApp.render_sidebar_filters                                   *)
(***************************************************************************)
importance_ranges ==
    << [ label |-> "Essenciais (1-10)",        range |-> <<1, 10>> ],
       [ label |-> "Intermediarios (11-30)",   range |-> <<11, 30>> ],
       [ label |-> "Avancados (31-60)",        range |-> <<31, 60>> ],
       [ label |-> "Tecnicos (61-100)",        range |-> <<61, 100>> ],
       [ label |-> "Especificos (101-157)",    range |-> <<101, 157>> ],
       [ label |-> "Todos os comandos",        range |-> <<1, 157>> ] >>

\* selectbox(..., index=0): the first label is chosen until the user picks.
DefaultImportance == 0

render_sidebar_filters(selected_range, text) ==
    [ min_importance |-> importance_ranges[selected_range + 1].range[1],
      max_importance |-> importance_ranges[selected_range + 1].range[2],
      search_term    |-> strip(lower(text)) ]

(***************************************************************************)
(* GitCommandsApp.filter_commands: the result, whether re.compile raised,  *)
(* and self.df as the call leaves it.                                      *)
(***************************************************************************)
in_range(row, f) ==
    /\ row.ordem_importancia >= f.min_importance
    /\ row.ordem_importancia <= f.max_importance

mask(row, f) ==
    \/ str_contains(lower(row.comando), f.search_term)
    \/ str_contains(lower(row.descricao), f.search_term)

\* Variant: the filtered frame is assigned to self.df.
filter_commands_in_place(self_df, f) ==
    LET InRange(row) == in_range(row, f)
        Mask(row) == mask(row, f)
        ranged == SelectSeq(self_df, InRange)
    IN  IF f.search_term = << >>
        THEN [ raised |-> FALSE, self_df |-> ranged, filtered_df |-> Some(ranged) ]
        ELSE IF ~re_compiles(f.search_term)
        THEN [ raised |-> TRUE, self_df |-> ranged, filtered_df |-> None ]
        ELSE [ raised |-> FALSE, self_df |-> SelectSeq(ranged, Mask),
               filtered_df |-> Some(SelectSeq(ranged, Mask)) ]

filter_commands(self_df, f) ==
    LET InRange(row) == in_range(row, f)
        Mask(row) == mask(row, f)
        ranged == SelectSeq(self_df, InRange)
    IN  IF f.search_term = << >>
        THEN [ raised |-> FALSE, self_df |-> self_df, filtered_df |-> Some(ranged) ]
        ELSE IF ~re_compiles(f.search_term)
        THEN [ raised |-> TRUE, self_df |-> self_df, filtered_df |-> None ]
        ELSE [ raised |-> FALSE, self_df |-> self_df,
               filtered_df |-> Some(SelectSeq(ranged, Mask)) ]

(***************************************************************************)
(* GitCommandsApp.render_statistics                                        *)
(***************************************************************************)
\* Variant: the distribution is counted over the filtered frame.
render_statistics_over_filtered(self_df, filtered) ==
    LET Essential(row) == row.ordem_importancia <= 10
        Intermediate(row) ==
            row.ordem_importancia > 10 /\ row.ordem_importancia <= 30
        Advanced(row) == row.ordem_importancia > 30
    IN  [ total_commands    |-> Len(self_df),
          filtered_commands |-> Len(filtered),
          essential         |-> Len(SelectSeq(filtered, Essential)),
          intermediate      |-> Len(SelectSeq(filtered, Intermediate)),
          advanced          |-> Len(SelectSeq(filtered, Advanced)) ]

render_statistics(self_df, filtered) ==
    LET Essential(row) == row.ordem_importancia <= 10
        Intermediate(row) ==
            row.ordem_importancia > 10 /\ row.ordem_importancia <= 30
        Advanced(row) == row.ordem_importancia > 30
    IN  [ total_commands    |-> Len(self_df),
          filtered_commands |-> Len(filtered),
          essential         |-> Len(SelectSeq(self_df, Essential)),
          intermediate      |-> Len(SelectSeq(self_df, Intermediate)),
          advanced          |-> Len(SelectSeq(self_df, Advanced)) ]

(***************************************************************************)
(* GitCommandsApp.render_command_selector.  The selectbox keeps the value  *)
(* the user chose while it is rendered with the same options; a selectbox  *)
(* rendered with other options, or for the first time, holds its default,  *)
(* index 0.                                                                *)
(***************************************************************************)
truncate(s, n) == SubSeq(s, 1, IF Len(s) < n THEN Len(s) ELSE n)

display_text(row) ==
    << row.ordem_importancia, row.comando, truncate(row.descricao, 50) >>

command_options(filtered) ==
    [ i \in 1..Len(filtered) |-> display_text(filtered[i]) ]

selectbox(options, widget) ==
    IF widget.value # None /\ widget.options = Some(options)
    THEN widget.value[1]
    ELSE 0

\* Variant: the chosen position is looked up in self.df, not in the filtered frame.
render_command_selector_in_full_set(self_df, filtered, widget) ==
    IF filtered = << >>
    THEN [ rendered |-> <<"warning_no_command_found">>,
           selected_index |-> None, selected_command |-> None ]
    ELSE LET selected_index == selectbox(command_options(filtered), widget)
         IN  [ rendered |-> <<"command_selector">>,
               selected_index |-> Some(selected_index),
               selected_command |-> Some(self_df[selected_index + 1]) ]

render_command_selector(self_df, filtered, widget) ==
    IF filtered = << >>
    THEN [ rendered |-> <<"warning_no_command_found">>,
           selected_index |-> None, selected_command |-> None ]
    ELSE LET selected_index == selectbox(command_options(filtered), widget)
         IN  [ rendered |-> <<"command_selector">>,
               selected_index |-> Some(selected_index),
               selected_command |-> Some(filtered[selected_index + 1]) ]

(***************************************************************************)
(* GitCommandsApp.render_command_details, reduced to what it is handed.    *)
(***************************************************************************)
render_command_details(selected) ==
    IF selected = None THEN << >> ELSE <<"command_details">>

(***************************************************************************)
(* GitCommandsApp.run                                                      *)
(***************************************************************************)
run(self_df, session) ==
    LET f == render_sidebar_filters(session.importance_select, session.search_input)
        flt == filter_commands(self_df, f)
    IN  IF flt.raised
        THEN [ raised |-> TRUE, self_df |-> flt.self_df, filters |-> Some(f),
               filtered_df |-> None, statistics |-> None,
               selected_index |-> None, selected_command |-> None,
               rendered |-> <<"header", "sidebar_filters">> ]
        ELSE LET stats == render_statistics(flt.self_df, flt.filtered_df[1])
                 sel == render_command_selector(flt.self_df, flt.filtered_df[1],
                                                session.widget)
             IN  [ raised |-> FALSE, self_df |-> flt.self_df, filters |-> Some(f),
                   filtered_df |-> flt.filtered_df, statistics |-> Some(stats),
                   selected_index |-> sel.selected_index,
                   selected_command |-> sel.selected_command,
                   rendered |->
                       <<"header", "sidebar_filters", "statistics">>
                       \o sel.rendered
                       \o (IF sel.selected_command # None
                           THEN render_command_details(sel.selected_command)
                           ELSE <<"welcome">>)
                       \o <<"footer">> ]

(***************************************************************************)
(* main, and the page style the script emits after main returns.  An       *)
(* execution ends "stopped" (st.stop), "error" (main caught an exception)  *)
(* or "completed".                                                         *)
(***************************************************************************)
main(file, sorted_df, session) ==
    LET app == load_data(file, sorted_df)
    IN  IF app.stopped
        THEN [ outcome |-> "stopped", loaded_df |-> None, df |-> app.self_df,
               filters |-> None, filtered_df |-> None, statistics |-> None,
               selected_index |-> None, selected_command |-> None,
               rendered |-> app.rendered ]
        ELSE LET r == run(app.self_df[1], session)
             IN  [ outcome |-> IF r.raised THEN "error" ELSE "completed",
                   loaded_df |-> app.self_df, df |-> Some(r.self_df),
                   filters |-> r.filters, filtered_df |-> r.filtered_df,
                   statistics |-> r.statistics,
                   selected_index |-> r.selected_index,
                   selected_command |-> r.selected_command,
                   rendered |->
                       r.rendered
                       \o (IF r.raised
                           THEN <<"error_application", "info_reload">>
                           ELSE << >>)
                       \o <<"style">> ]

(***************************************************************************)
(* The session.  The file is fixed for the session; the page is executed   *)
(* once when it is opened and again on every interaction.                  *)
(***************************************************************************)
Files ==
    { f \in [ status : FileStatus, rows : RowSeqs ] :
        f.status = "missing" => f.rows = << >> }

\* sort_result: the frame sort_values gives for this file, the same at every
\* execution of the session.
Init ==
    /\ csv \in Files
    /\ sort_result \in sort_values(csv.rows)
    /\ importance_select = DefaultImportance
    /\ search_input = << >>
    /\ command_selector = None
    /\ loaded_df = None
    /\ df = None
    /\ filters = None
    /\ filtered_df = None
    /\ statistics = None
    /\ selected_command = None
    /\ rendered = << >>
    /\ outcome = "idle"

Shows(element) == \E i \in 1..Len(rendered) : rendered[i] = element

\* The options of the command selectbox as last rendered.
last_options ==
    IF Shows("command_selector")
    THEN Some(command_options(filtered_df[1]))
    ELSE None

Record(range, text, r) ==
    /\ importance_select' = range
    /\ search_input' = text
    /\ command_selector' = r.selected_index
    /\ loaded_df' = r.loaded_df
    /\ df' = r.df
    /\ filters' = r.filters
    /\ filtered_df' = r.filtered_df
    /\ statistics' = r.statistics
    /\ selected_command' = r.selected_command
    /\ rendered' = r.rendered
    /\ outcome' = r.outcome
    /\ UNCHANGED << csv, sort_result >>

Execute(range, text, choice) ==
    Record(range, text,
           main(csv, sort_result,
                [ importance_select |-> range, search_input |-> text,
                  widget |-> [ value |-> choice, options |-> last_options ] ]))

\* The page is opened: the first execution, every widget at its default.
Open ==
    /\ outcome = "idle"
    /\ Execute(DefaultImportance, << >>, None)

\* The user picks another importance range in the sidebar.
SelectImportance ==
    /\ Shows("sidebar_filters")
    /\ \E label \in 0..(Len(importance_ranges) - 1) :
          /\ label # importance_select
          /\ Execute(label, search_input, command_selector)

\* The user types another text into the search box.
TypeSearch ==
    /\ Shows("sidebar_filters")
    /\ \E text \in SearchInputs :
          /\ text # search_input
          /\ Execute(importance_select, text, command_selector)

\* The user picks an entry of the command selectbox.
ChooseCommand ==
    /\ Shows("command_selector")
    /\ \E i \in 0..(Len(filtered_df[1]) - 1) :
          Execute(importance_select, search_input, Some(i))

\* The page is executed again with the widgets as they are.
Rerun ==
    /\ outcome # "idle"
    /\ Execute(importance_select, search_input, command_selector)

Next == Open \/ SelectImportance \/ TypeSearch \/ ChooseCommand \/ Rerun

Spec == Init /\ [][Next]_vars

(***************************************************************************)
(* Vocabulary of the properties                                            *)
(***************************************************************************)
Loaded == loaded_df # None

Occurrences(s, e) == Cardinality({ i \in 1..Len(s) : s[i] = e })

SameRows(s, t) ==
    /\ Len(s) = Len(t)
    /\ \A i \in 1..Len(s) : Occurrences(s, s[i]) = Occurrences(t, s[i])

RankOrdered(s) ==
    \A i, j \in 1..Len(s) :
        i < j => s[i].ordem_importancia <= s[j].ordem_importancia

\* s is rows sorted by rank with rows of equal rank in their order in rows.
IsStableSortOf(s, rows) ==
    \E p \in Orderings(Len(rows)) :
        /\ s = take(rows, p)
        /\ RankOrdered(s)
        /\ \A i, j \in 1..Len(s) :
              (i < j /\ s[i].ordem_importancia = s[j].ordem_importancia)
                  => p[i] < p[j]

\* term occurs in s, character for character.
LiteralSubstring(term, s) ==
    \E k \in 0..(Len(s) - Len(term)) :
        \A j \in 1..Len(term) : s[k + j] = term[j]

\* The inclusion rule of the filter contract.
Included(row, f) ==
    /\ f.min_importance <= row.ordem_importancia
    /\ row.ordem_importancia <= f.max_importance
    /\ \/ f.search_term = << >>
       \/ LiteralSubstring(lower(f.search_term), lower(row.comando))
       \/ LiteralSubstring(lower(f.search_term), lower(row.descricao))

ContractFilter(rows, f) ==
    LET Keep(row) == Included(row, f) IN SelectSeq(rows, Keep)

\* The positions of the rows whose rank is above lo.
RanksAbove(rows, lo) ==
    { i \in 1..Len(rows) : lo < rows[i].ordem_importancia }

(***************************************************************************)
(* C1.  Whatever the dataset, the range and the search term (punctuation   *)
(* included), filter_commands does not raise and returns exactly the rows  *)
(* of the dataset, in order, whose rank is in the range and whose name or  *)
(* description contains the term as a case-insensitive literal substring.  *)
(* Refuted: the term is used as a regular expression.                      *)
(***************************************************************************)
C1_FilterIsLiteralSubstringScan ==
    (Loaded /\ filters # None) =>
        /\ outcome # "error"
        /\ filtered_df = Some(ContractFilter(loaded_df[1], filters[1]))

(***************************************************************************)
(* C2.  For a valid file, the dataset held after load_data/validate_data   *)
(* is a permutation of the file's rows in non-decreasing rank order, and   *)
(* it is still so ordered when the execution (the render) ends.            *)
(***************************************************************************)
C2_LoadedIsSortedPermutation ==
    (csv.status = "ok" /\ outcome # "idle") =>
        /\ Loaded
        /\ SameRows(loaded_df[1], csv.rows)
        /\ RankOrdered(loaded_df[1])
        /\ df # None
        /\ SameRows(df[1], csv.rows)
        /\ RankOrdered(df[1])

C2_Witness ==
    /\ csv.status = "ok"
    /\ Len(csv.rows) = 3
    /\ csv.rows[1].ordem_importancia > csv.rows[2].ordem_importancia
    /\ csv.rows[2].ordem_importancia > csv.rows[3].ordem_importancia
    /\ outcome = "completed"
    /\ loaded_df = Some(<< csv.rows[3], csv.rows[2], csv.rows[1] >>)

(***************************************************************************)
(* C3.  With min=1, max=157 and an empty search term ("Todos os comandos") *)
(* the filter returns the whole dataset, in order, whatever the ranks.     *)
(* Refuted: a row ranked above 157 is dropped.                             *)
(***************************************************************************)
C3_AllCommandsReturnsWholeDataset ==
    ( /\ Loaded
      /\ filters # None
      /\ filters[1].min_importance = 1
      /\ filters[1].max_importance = 157
      /\ filters[1].search_term = << >> )
        => filtered_df = loaded_df

(***************************************************************************)
(* C4.  When loading fails (file missing, unparseable, or a required       *)
(* column absent) the execution shows one error message and halts:         *)
(* load_data does not return, no filter is evaluated, and no selector,     *)
(* details, statistics or footer is rendered, so no stage is handed a      *)
(* dataset.  (A stop for a missing column leaves the frame as read on the  *)
(* instance; nothing runs after the stop to read it.)                      *)
(***************************************************************************)
LoadErrors ==
    { "error_file_not_found", "error_loading_data", "error_csv_structure" }

C4_LoadFailureHalts ==
    (csv.status # "ok" /\ outcome # "idle") =>
        /\ outcome = "stopped"
        /\ Len(rendered) = 1
        /\ rendered[1] \in LoadErrors
        /\ loaded_df = None
        /\ filters = None
        /\ filtered_df = None
        /\ statistics = None
        /\ command_selector = None
        /\ selected_command = None

C4_Witness ==
    /\ csv.status = "no_columns"
    /\ csv.rows # << >>
    /\ outcome = "stopped"
    /\ df = Some(csv.rows)
    /\ rendered = <<"error_csv_structure">>

(***************************************************************************)
(* C5.  Whenever an entry is shown as selected, its index i is within the  *)
(* current reduced sequence (0 <= i < n) and the fields handed to the      *)
(* details view are those of the i-th entry of that sequence, unmodified.  *)
(***************************************************************************)
C5_SelectionIsIndexedEntry ==
    selected_command # None =>
        /\ filtered_df # None
        /\ command_selector # None
        /\ 0 <= command_selector[1]
        /\ command_selector[1] < Len(filtered_df[1])
        /\ selected_command[1] = filtered_df[1][command_selector[1] + 1]
        /\ Shows("command_details")

C5_Witness ==
    /\ selected_command # None
    /\ command_selector = Some(1)
    /\ Len(loaded_df[1]) = 3
    /\ Len(filtered_df[1]) = 2
    /\ selected_command[1] = loaded_df[1][3]
    /\ loaded_df[1][2] # loaded_df[1][3]

(***************************************************************************)
(* C6.  Whatever filter is active, the three counts render_statistics      *)
(* shows (rank <= 10, 10 < rank <= 30, rank > 30) are those of the full    *)
(* dataset and add up to its number of rows.                               *)
(***************************************************************************)
C6_StatisticsPartitionFullSet ==
    statistics # None =>
        LET st == statistics[1]
            all == 1..Len(loaded_df[1])
            above10 == RanksAbove(loaded_df[1], 10)
            above30 == RanksAbove(loaded_df[1], 30)
        IN  /\ Loaded
            /\ st.total_commands = Len(loaded_df[1])
            /\ st.essential = Cardinality(all \ above10)
            /\ st.intermediate = Cardinality(above10 \ above30)
            /\ st.advanced = Cardinality(above30)
            /\ st.essential + st.intermediate + st.advanced = st.total_commands

C6_Witness ==
    /\ statistics # None
    /\ statistics[1].essential = 1
    /\ statistics[1].intermediate = 1
    /\ statistics[1].advanced = 1
    /\ statistics[1].filtered_commands = 1
    /\ filters[1].search_term # << >>

(***************************************************************************)
(* C7.  A range or search that excludes every entry gives an empty result  *)
(* and never an error: that execution shows the 'no command found'         *)
(* warning and completes (statistics and footer shown, no details), and an *)
(* execution whose filter matches entries shows the selector.              *)
(* Refuted: a search term that is not a valid regular expression raises.   *)
(***************************************************************************)
C7_EmptyResultIsNotAnError ==
    (Loaded /\ filters # None) =>
        IF ContractFilter(loaded_df[1], filters[1]) = << >>
        THEN /\ outcome = "completed"
             /\ filtered_df = Some(<< >>)
             /\ Shows("warning_no_command_found")
             /\ Shows("statistics")
             /\ Shows("footer")
             /\ ~Shows("command_details")
        ELSE /\ outcome = "completed"
             /\ Shows("command_selector")

(***************************************************************************)
(* C8.  The page starts with nothing selected and an entry becomes         *)
(* selected only by the user choosing one in the selector.                 *)
(* Refuted: the selectbox holds index 0 by default, so the first entry is  *)
(* selected by the first execution.                                        *)
(***************************************************************************)
C8_SelectedOnlyByUserChoice ==
    [][ (selected_command = None /\ selected_command' # None)
            => ChooseCommand ]_vars

(***************************************************************************)
(* C9.  Once loaded, the dataset is not changed within the execution:      *)
(* filtering, selecting and rendering leave self.df as it was loaded, for  *)
(* every filter input and every selection.                                 *)
(***************************************************************************)
C9_DatasetUnchangedAfterLoad ==
    Loaded => df = loaded_df

C9_Witness ==
    /\ outcome = "completed"
    /\ filtered_df # None
    /\ Len(filtered_df[1]) = 2
    /\ Len(loaded_df[1]) = 3
    /\ command_selector = Some(1)
    /\ Shows("command_details")
    /\ Shows("footer")
    /\ df = loaded_df

(***************************************************************************)
(* C10.  A file with duplicate ranks is accepted, and the load-time sort   *)
(* keeps rows of equal rank in the order they have in the file.            *)
(* Refuted: sort_values is called with its default kind, which is not a    *)
(* stable sort.                                                            *)
(***************************************************************************)
C10_SortIsStable ==
    (csv.status = "ok" /\ outcome # "idle") =>
        /\ Loaded
        /\ IsStableSortOf(loaded_df[1], csv.rows)

====
